---- MODULE Spec2Model ----
(***************************************************************************)
(* A model of fastapi-dagobah: the filing store and FilingService          *)
(* (app/services/filing_service.py, app/models/filing.py,                  *)
(* app/schemas/filing.py), the database connection manager                 *)
(* (app/core/database.py), the request dependencies (app/core/deps.py),    *)
(* the health and filing endpoints (app/api/v1) and the application        *)
(* bootstrap (app/main.py).                                                *)
(*                                                                         *)
(* Three specifications share the variables:                               *)
(*   Spec     the FilingService operations against the filings table; each *)
(*            call runs in the transaction of its own session and takes    *)
(*            effect at its commit, so the calls of all sessions form one  *)
(*            sequence of these steps;                                     *)
(*   UpdSpec  update_filing alone, with every patch FilingUpdate admits;   *)
(*   AppSpec  startup, session acquisition and release, the readiness      *)
(*            probe and the two stub filing endpoints.                     *)
(***************************************************************************)
EXTENDS Integers, Sequences, FiniteSets, TLC

VARIABLES
    store,                \* the rows of table "filings", in natural (insertion) order
    nextId,               \* the next value of the integer primary key
    last,                 \* the most recent FilingService call: operation, arguments, outcome
    database_url,         \* settings.database_url
    phase,                \* "created" before the startup event, "serving" after it
    engine,               \* database.engine
    async_session_maker,  \* database.async_session_maker
    reachable,            \* whether the database server answers at the moment
    req,                  \* per request slot: position of the request and its session
    sess,                 \* per session object: "free", "open" or "closed"
    resp                  \* the most recent HTTP outcome (or init_db outcome)

vars == <<store, nextId, last, database_url, phase, engine, async_session_maker,
          reachable, req, sess, resp>>

svcVars == <<store, nextId, last>>
appVars == <<database_url, phase, engine, async_session_maker, reachable, req, sess, resp>>

----------------------------------------------------------------------------
(* Bounds of the model *)

MaxRows == 2
MaxId == 2
MaxPatchFields == 1
MaxSkip == 3
MaxLimit == 3
MaxSess == 2

----------------------------------------------------------------------------
(* Values *)

\* Python's None
None == "None"

\* a connection string as DATABASE_URL carries it
ConfiguredUrl == "postgresql+asyncpg://db/filings"

\* the value of func.now() on the database server
ServerNow == "now()"

Requests == {"r1", "r2"}
FilingIds == {"F1", "F2"}
Names == {"Acme", ""}
Forms == {"10-K"}
Dates == {"2024-01-01"}
Contents == {"text"}

\* schemas/filing.py FilingBase / FilingCreate: content is Optional, the rest required
FilingCreate ==
    [filing_id : FilingIds, company_name : Names, form_type : Forms,
     filing_date : Dates, content : Contents \cup {None}]

UpdateFields == {"company_name", "form_type", "filing_date", "content"}

\* schemas/filing.py FilingUpdate: every field Optional with default None;
\* fields_set is pydantic's record of the fields the caller supplied.
FilingUpdate ==
    { u \in [company_name : Names \cup {None}, form_type : Forms \cup {None},
             filing_date : Dates \cup {None}, content : Contents \cup {None},
             fields_set : SUBSET UpdateFields] :
        \A k \in UpdateFields \ u.fields_set : u[k] = None }

\* the patches that supply at most n fields
PatchesUpTo(n) == {u \in FilingUpdate : Cardinality(u.fields_set) <= n}

\* models/filing.py: the columns declared nullable=False that an update can write
NotNullColumns == {"company_name", "form_type", "filing_date"}

----------------------------------------------------------------------------
(* The filings table and the queries of FilingService *)

Absent == [kind |-> "None"]
MultipleResultsFound == [kind |-> "MultipleResultsFound"]

Matching(s, fid) == SelectSeq(s, LAMBDA row : row.filing_id = fid)

\* Result.scalar_one_or_none
scalar_one_or_none(rows) ==
    IF Len(rows) = 0 THEN Absent
    ELSE IF Len(rows) = 1 THEN rows[1]
    ELSE MultipleResultsFound

\* select(Filing).where(Filing.filing_id == filing_id)
get_filing_by_id(s, fid) == scalar_one_or_none(Matching(s, fid))

Min(a, b) == IF a < b THEN a ELSE b

\* OFFSET skip
Offset(s, skip) == SubSeq(s, skip + 1, Len(s))

\* LIMIT applied with an inclusive upper bound
Limit_inclusive(s, limit) == SubSeq(s, 1, Min(limit + 1, Len(s)))

\* LIMIT limit
Limit(s, limit) == SubSeq(s, 1, Min(limit, Len(s)))

\* select(Filing).offset(skip).limit(limit)
get_filings(s, skip, limit) == Limit(Offset(s, skip), limit)

\* a row whose updated_at column also carried an insert default
NewRow_stamped(data, id) ==
    [id |-> id, filing_id |-> data.filing_id, company_name |-> data.company_name,
     form_type |-> data.form_type, filing_date |-> data.filing_date,
     content |-> data.content, created_at |-> ServerNow, updated_at |-> ServerNow]

\* Filing(**filing_data.dict()) as the INSERT stores it: id from the primary
\* key, created_at from server_default, updated_at without a default
NewRow(data, id) ==
    [id |-> id, filing_id |-> data.filing_id, company_name |-> data.company_name,
     form_type |-> data.form_type, filing_date |-> data.filing_date,
     content |-> data.content, created_at |-> ServerNow, updated_at |-> None]

\* filing_id declared without unique=True
UniqueOk_unchecked(s, fid) == TRUE

\* the unique index on filings.filing_id
UniqueOk(s, fid) == \A i \in 1..Len(s) : s[i].filing_id # fid

\* filing_data.dict(exclude_none=True)
update_data_exclude_none(u) == [k \in {f \in UpdateFields : u[f] # None} |-> u[k]]

\* filing_data.dict(exclude_unset=True)
update_data(u) == [k \in u.fields_set |-> u[k]]

\* for field, value in update_data.items(): setattr(filing, field, value)
SetAttrs(row, upd) ==
    [k \in DOMAIN row |-> IF k \in DOMAIN upd THEN upd[k] ELSE row[k]]

\* the attributes with a net change, which are the columns of the UPDATE
Changed(row, obj) == {k \in UpdateFields : obj[k] # row[k]}

\* the NOT NULL constraints as the UPDATE meets them
NotNullOk(row, obj) == \A k \in Changed(row, obj) \cap NotNullColumns : obj[k] # None

\* the row after the flush: no UPDATE without a net change; an UPDATE also
\* sets updated_at from onupdate
Flushed(row, obj) ==
    IF Changed(row, obj) = {} THEN row
    ELSE [obj EXCEPT !.updated_at = ServerNow]

\* UPDATE filings SET ... WHERE id = :id
Replace(s, id, new) == [i \in 1..Len(s) |-> IF s[i].id = id THEN new ELSE s[i]]

\* a delete that is never committed
Remove_uncommitted(s, id) == s

\* DELETE FROM filings WHERE id = :id
Remove(s, id) == SelectSeq(s, LAMBDA row : row.id # id)

----------------------------------------------------------------------------
(* FilingService operations *)

\* FilingService.get_filing_by_id
GetFilingById(fid) ==
    /\ last' = [op |-> "get_filing_by_id", filing_id |-> fid, pre |-> store,
                outcome |-> "ok", ret |-> get_filing_by_id(store, fid)]
    /\ UNCHANGED <<store, nextId>>
    /\ UNCHANGED appVars

\* FilingService.get_filings
GetFilings(skip, limit) ==
    /\ last' = [op |-> "get_filings", skip |-> skip, limit |-> limit, pre |-> store,
                outcome |-> "ok", ret |-> get_filings(store, skip, limit)]
    /\ UNCHANGED <<store, nextId>>
    /\ UNCHANGED appVars

\* FilingService.create_filing
CreateFiling(data) ==
    /\ IF UniqueOk(store, data.filing_id)
       THEN /\ nextId <= MaxId
            /\ Len(store) < MaxRows
            /\ store' = Append(store, NewRow(data, nextId))
            /\ nextId' = nextId + 1
            /\ last' = [op |-> "create_filing", data |-> data, pre |-> store,
                        outcome |-> "ok",
                        ret |-> get_filing_by_id(store', data.filing_id)]
       ELSE /\ last' = [op |-> "create_filing", data |-> data, pre |-> store,
                        outcome |-> "IntegrityError", ret |-> Absent]
            /\ UNCHANGED <<store, nextId>>
    /\ UNCHANGED appVars

\* FilingService.update_filing
UpdateFiling(fid, u) ==
    LET filing == get_filing_by_id(store, fid) IN
    /\ filing # MultipleResultsFound
    /\ IF filing = Absent
       THEN /\ last' = [op |-> "update_filing", filing_id |-> fid, patch |-> u,
                        pre |-> store, outcome |-> "ok", ret |-> Absent]
            /\ UNCHANGED store
       ELSE LET obj == SetAttrs(filing, update_data(u)) IN
            IF NotNullOk(filing, obj)
            THEN /\ store' = Replace(store, filing.id, Flushed(filing, obj))
                 /\ last' = [op |-> "update_filing", filing_id |-> fid, patch |-> u,
                             pre |-> store, outcome |-> "ok",
                             ret |-> get_filing_by_id(store', fid)]
            ELSE /\ last' = [op |-> "update_filing", filing_id |-> fid, patch |-> u,
                             pre |-> store, outcome |-> "IntegrityError",
                             ret |-> Absent]
                 /\ UNCHANGED store
    /\ UNCHANGED nextId
    /\ UNCHANGED appVars

\* FilingService.delete_filing
DeleteFiling(fid) ==
    LET filing == get_filing_by_id(store, fid) IN
    /\ filing # MultipleResultsFound
    /\ IF filing = Absent
       THEN /\ last' = [op |-> "delete_filing", filing_id |-> fid, pre |-> store,
                        outcome |-> "ok", ret |-> FALSE]
            /\ UNCHANGED store
       ELSE /\ store' = Remove(store, filing.id)
            /\ last' = [op |-> "delete_filing", filing_id |-> fid, pre |-> store,
                        outcome |-> "ok", ret |-> TRUE]
    /\ UNCHANGED nextId
    /\ UNCHANGED appVars

NoCall == [op |-> "none"]
NoResp == [op |-> "none"]

\* The service is exercised in a process whose startup event has run with a
\* connection string configured.
Init ==
    /\ store = <<>>
    /\ nextId = 1
    /\ last = NoCall
    /\ database_url = ConfiguredUrl
    /\ phase = "serving"
    /\ engine = "engine"
    /\ async_session_maker = "sessionmaker"
    /\ reachable = TRUE
    /\ req = [r \in Requests |-> [pc |-> "idle", sid |-> 0]]
    /\ sess = [i \in 1..MaxSess |-> "free"]
    /\ resp = NoResp

Next ==
    \/ \E fid \in FilingIds : GetFilingById(fid)
    \/ \E skip \in 0..MaxSkip, limit \in 0..MaxLimit : GetFilings(skip, limit)
    \/ \E data \in FilingCreate : CreateFiling(data)
    \/ \E fid \in FilingIds, u \in PatchesUpTo(MaxPatchFields) : UpdateFiling(fid, u)
    \/ \E fid \in FilingIds : DeleteFiling(fid)

Spec == Init /\ [][Next]_vars

SampleData(fid, name, content) ==
    [filing_id |-> fid, company_name |-> name, form_type |-> "10-K",
     filing_date |-> "2024-01-01", content |-> content]

\* table contents create_filing can have produced
SampleStores ==
    { <<>>,
      <<NewRow(SampleData("F1", "Acme", "text"), 1)>>,
      <<NewRow(SampleData("F1", "Acme", "text"), 1),
        NewRow(SampleData("F2", "", None), 2)>> }

\* update_filing with every patch FilingUpdate admits, on a table that
\* create_filing has filled
UpdInit ==
    /\ store \in SampleStores \ {<<>>}
    /\ nextId = Len(store) + 1
    /\ last = NoCall
    /\ database_url = ConfiguredUrl
    /\ phase = "serving"
    /\ engine = "engine"
    /\ async_session_maker = "sessionmaker"
    /\ reachable = TRUE
    /\ req = [r \in Requests |-> [pc |-> "idle", sid |-> 0]]
    /\ sess = [i \in 1..MaxSess |-> "free"]
    /\ resp = NoResp

UpdNext == \E fid \in FilingIds, u \in FilingUpdate : UpdateFiling(fid, u)

UpdSpec == UpdInit /\ [][UpdNext]_vars

----------------------------------------------------------------------------
(* Configuration, startup and the connection manager *)

\* the truth value Python gives an Optional[str]
Truthy(url) == url # None /\ url # ""

\* main.py: startup calls init_db whatever the settings hold
StartupCallsInitDb_always(url) == TRUE

\* main.py startup_event: if settings.database_url
StartupCallsInitDb(url) == Truthy(url)

\* database.py init_db: if not settings.database_url: raise ValueError
InitDbAccepts(url) == Truthy(url)

DatabaseUrlMustBeSet == "DATABASE_URL must be set"
DatabaseNotInitialized == "Database not initialized. Call init_db() first."

\* main.py startup_event
startup_event ==
    /\ phase = "created"
    /\ IF StartupCallsInitDb(database_url)
       THEN IF InitDbAccepts(database_url)
            THEN /\ engine' = "engine"
                 /\ async_session_maker' = "sessionmaker"
                 /\ phase' = "serving"
            ELSE /\ phase' = "failed"
                 /\ UNCHANGED <<engine, async_session_maker>>
       ELSE /\ phase' = "serving"
            /\ UNCHANGED <<engine, async_session_maker>>
    /\ UNCHANGED <<database_url, reachable, req, sess, resp>>
    /\ UNCHANGED svcVars

\* database.py init_db, called by any other code of the process
init_db ==
    /\ IF InitDbAccepts(database_url)
       THEN /\ engine' = "engine"
            /\ async_session_maker' = "sessionmaker"
            /\ resp' = [op |-> "init_db", status |-> "ok"]
       ELSE /\ resp' = [op |-> "init_db", status |-> "ValueError",
                        error |-> DatabaseUrlMustBeSet]
            /\ UNCHANGED <<engine, async_session_maker>>
    /\ UNCHANGED <<database_url, phase, reachable, req, sess>>
    /\ UNCHANGED svcVars

\* the database server becomes unreachable or reachable again
NetworkChange ==
    /\ reachable' = ~reachable
    /\ UNCHANGED <<database_url, phase, engine, async_session_maker, req, sess, resp>>
    /\ UNCHANGED svcVars

----------------------------------------------------------------------------
(* The stub filing endpoints *)

Consumers == {None, "alice"}
UserIds == {None, "u-1"}

\* deps.py: the two header values returned under each other's key
get_consumer_info_swapped(consumer, user_id) == [consumer |-> user_id, user_id |-> consumer]

\* deps.py get_consumer_info; an absent header is None
get_consumer_info(consumer, user_id) == [consumer |-> consumer, user_id |-> user_id]

\* filings.py list_filings
list_filings(consumer_info) ==
    [filings |-> <<>>, consumer |-> consumer_info.consumer,
     user_id |-> consumer_info.user_id,
     message |-> "Filings endpoint - ready for implementation"]

\* filings.py get_filing
get_filing(filing_id, consumer_info) ==
    [filing_id |-> filing_id, consumer |-> consumer_info.consumer,
     user_id |-> consumer_info.user_id,
     message |-> "Filing detail endpoint - ready for implementation"]

\* GET /filings
ListFilings(consumer, user_id) ==
    /\ phase = "serving"
    /\ resp' = [op |-> "list_filings", status |-> 200,
                request |-> [consumer |-> consumer, user_id |-> user_id],
                body |-> list_filings(get_consumer_info(consumer, user_id))]
    /\ UNCHANGED <<database_url, phase, engine, async_session_maker, reachable, req, sess>>
    /\ UNCHANGED svcVars

\* GET /filings/{filing_id}
GetFiling(filing_id, consumer, user_id) ==
    /\ phase = "serving"
    /\ resp' = [op |-> "get_filing", status |-> 200,
                request |-> [filing_id |-> filing_id, consumer |-> consumer,
                             user_id |-> user_id],
                body |-> get_filing(filing_id, get_consumer_info(consumer, user_id))]
    /\ UNCHANGED <<database_url, phase, engine, async_session_maker, reachable, req, sess>>
    /\ UNCHANGED svcVars

----------------------------------------------------------------------------
(* Session acquisition and the readiness endpoint *)

FreeSessions == {i \in 1..MaxSess : sess[i] = "free"}

Holder(i) == {r \in Requests : req[r].pc = "handler" /\ req[r].sid = i}

\* GET /health/ready, resolution of Depends(get_db): get_db iterates
\* get_db_session, which raises before yielding when there is no session
\* factory; the handler has not been entered, so the error leaves the request.
ReadinessRequest(r) ==
    /\ phase = "serving"
    /\ req[r].pc = "idle"
    /\ IF async_session_maker = None
       THEN /\ resp' = [op |-> "readiness", status |-> 500,
                        error |-> DatabaseNotInitialized]
            /\ UNCHANGED <<req, sess>>
       ELSE /\ FreeSessions # {}
            /\ LET i == CHOOSE x \in FreeSessions : \A y \in FreeSessions : x <= y IN
               /\ sess' = [sess EXCEPT ![i] = "open"]
               /\ req' = [req EXCEPT ![r] = [pc |-> "handler", sid |-> i]]
            /\ UNCHANGED resp
    /\ UNCHANGED <<database_url, phase, engine, async_session_maker, reachable>>
    /\ UNCHANGED svcVars

\* health.py readiness_check, followed by the dependency's exit on a normal
\* return: get_db resumes its loop, get_db_session runs its finally block and
\* closes the session.
readiness_check(r) ==
    /\ req[r].pc = "handler"
    /\ resp' = IF reachable
               THEN [op |-> "readiness", status |-> 200,
                     body |-> [status |-> "ready", database |-> "connected"]]
               ELSE [op |-> "readiness", status |-> 200,
                     body |-> [status |-> "not ready", database |-> "disconnected",
                               error |-> "connection refused"]]
    /\ sess' = [sess EXCEPT ![req[r].sid] = "closed"]
    /\ req' = [req EXCEPT ![r].pc = "done"]
    /\ UNCHANGED <<database_url, phase, engine, async_session_maker, reachable>>
    /\ UNCHANGED svcVars

\* The request is cancelled while the handler awaits db.execute.
\* CancelledError is not an Exception, so the handler does not catch it; it is
\* thrown into get_db at its yield and leaves the "async for" without resuming
\* get_db_session, whose finally block has therefore not run when the request
\* ends.
Cancel(r) ==
    /\ req[r].pc = "handler"
    /\ req' = [req EXCEPT ![r].pc = "done"]
    /\ UNCHANGED <<database_url, phase, engine, async_session_maker, reachable, sess, resp>>
    /\ UNCHANGED svcVars

\* The event loop finalizes the abandoned get_db_session generator: its finally
\* block runs and closes the session.
Finalize(i) ==
    /\ sess[i] = "open"
    /\ Holder(i) = {}
    /\ sess' = [sess EXCEPT ![i] =
                  IF \E r \in Requests : req[r].sid = i THEN "closed" ELSE "free"]
    /\ UNCHANGED <<database_url, phase, engine, async_session_maker, reachable, req, resp>>
    /\ UNCHANGED svcVars

\* The finished request is discarded, and a closed session object with it.
Discard(r) ==
    /\ req[r].pc = "done"
    /\ req' = [req EXCEPT ![r] = [pc |-> "idle", sid |-> 0]]
    /\ sess' = [sess EXCEPT ![req[r].sid] = IF @ = "closed" THEN "free" ELSE @]
    /\ UNCHANGED <<database_url, phase, engine, async_session_maker, reachable, resp>>
    /\ UNCHANGED svcVars

\* The process after create_app(): settings loaded, startup event not yet run.
AppInit ==
    /\ store \in SampleStores
    /\ nextId = Len(store) + 1
    /\ last = NoCall
    /\ database_url \in {None, "", ConfiguredUrl}
    /\ phase = "created"
    /\ engine = None
    /\ async_session_maker = None
    /\ reachable \in BOOLEAN
    /\ req = [r \in Requests |-> [pc |-> "idle", sid |-> 0]]
    /\ sess = [i \in 1..MaxSess |-> "free"]
    /\ resp = NoResp

AppNext ==
    \/ startup_event
    \/ init_db
    \/ NetworkChange
    \/ \E c \in Consumers, u \in UserIds : ListFilings(c, u)
    \/ \E fid \in FilingIds, c \in Consumers, u \in UserIds : GetFiling(fid, c, u)
    \/ \E r \in Requests : ReadinessRequest(r)
    \/ \E r \in Requests : readiness_check(r)
    \/ \E r \in Requests : Cancel(r)
    \/ \E i \in 1..MaxSess : Finalize(i)
    \/ \E r \in Requests : Discard(r)

AppSpec == AppInit /\ [][AppNext]_vars

----------------------------------------------------------------------------
(* Properties of the FilingService operations (specification Spec) *)

IsRow(x) == x # Absent /\ x # MultipleResultsFound

InputFields == {"filing_id", "company_name", "form_type", "filing_date", "content"}

OtherRows(s, fid) == SelectSeq(s, LAMBDA row : row.filing_id # fid)

\* C2: for a valid creation input whose filing_id is not stored, create_filing
\* succeeds and get_filing_by_id with the same filing_id then returns a record
\* whose five input fields equal the input, with id assigned, created_at
\* populated and updated_at absent.
C2_CreateThenGet ==
    (last.op = "create_filing" /\ get_filing_by_id(last.pre, last.data.filing_id) = Absent)
    => LET g == get_filing_by_id(store, last.data.filing_id) IN
       /\ last.outcome = "ok"
       /\ IsRow(g)
       /\ \A k \in InputFields : g[k] = last.data[k]
       /\ g.id \in Nat \ {0}
       /\ g.created_at # None
       /\ g.updated_at = None

C2_Witness ==
    /\ last.op = "create_filing"
    /\ last.outcome = "ok"
    /\ last.data.content = None
    /\ Len(last.pre) = 1
    /\ Len(store) = 2

\* the effect of a sparse patch u on the filing fid: supplied fields take the
\* patch value, the others keep theirs, id, filing_id and created_at stay, and
\* no other row changes
PatchApplied(fid, u, before, after) ==
    LET old == get_filing_by_id(before, fid)
        new == get_filing_by_id(after, fid) IN
    /\ IsRow(new)
    /\ \A k \in u.fields_set : new[k] = u[k]
    /\ \A k \in UpdateFields \ u.fields_set : new[k] = old[k]
    /\ new.id = old.id
    /\ new.filing_id = old.filing_id
    /\ new.created_at = old.created_at
    /\ Len(after) = Len(before)
    /\ \A i \in 1..Len(before) :
         before[i].filing_id # fid => after[i] = before[i]

\* C3 as stated: update_filing on an existing filing applies every field
\* present in the patch, an explicit None included, keeps every other field,
\* keeps id, filing_id and created_at, and changes no other row.
C3_AsStated ==
    (last.op = "update_filing" /\ IsRow(get_filing_by_id(last.pre, last.filing_id)))
    => PatchApplied(last.filing_id, last.patch, last.pre, store)

NullsRequired(u) == \E k \in u.fields_set \cap NotNullColumns : u[k] = None

\* C3 amended: update_filing on an existing filing is a sparse patch unless the
\* patch explicitly supplies None for company_name, form_type or filing_date;
\* such a patch fails with the store's integrity error and changes no row.
\* Otherwise every supplied field (an explicit None for content included)
\* takes the patch value, every other field keeps its value, id, filing_id and
\* created_at are unchanged, and no other row changes.
C3_SparsePatch ==
    (last.op = "update_filing" /\ IsRow(get_filing_by_id(last.pre, last.filing_id)))
    => IF NullsRequired(last.patch)
       THEN last.outcome = "IntegrityError" /\ store = last.pre
       ELSE last.outcome = "ok"
            /\ PatchApplied(last.filing_id, last.patch, last.pre, store)

C3_Witness ==
    /\ last.op = "update_filing"
    /\ last.outcome = "ok"
    /\ Len(store) = 2
    /\ last.patch.fields_set = {"content"}
    /\ last.patch.content = None
    /\ IsRow(get_filing_by_id(last.pre, last.filing_id))
    /\ get_filing_by_id(last.pre, last.filing_id).content = "text"
    /\ get_filing_by_id(store, last.filing_id).content = None

\* C4: updated_at is absent on the record create_filing returns, and the
\* record returned by every update_filing call that finds the filing (whatever
\* subset of the updatable fields the patch carries, none or unchanged values
\* included) has updated_at set; neither input shape carries created_at or
\* updated_at.
C4_UpdatedAtSet ==
    /\ (last.op = "create_filing" /\ last.outcome = "ok")
         => (last.ret.updated_at = None
             /\ DOMAIN last.data \cap {"created_at", "updated_at"} = {})
    /\ (last.op = "update_filing" /\ last.outcome = "ok" /\ IsRow(last.ret))
         => (last.ret.updated_at # None
             /\ DOMAIN last.patch \cap {"created_at", "updated_at"} = {})

\* C5: delete_filing of a filing_id that is not stored returns false and leaves
\* the store as it was; delete_filing of a stored filing_id returns true,
\* removes that filing and no other, and get_filing_by_id then finds nothing.
C5_Delete ==
    last.op = "delete_filing"
    => /\ last.outcome = "ok"
       /\ IF get_filing_by_id(last.pre, last.filing_id) = Absent
          THEN last.ret = FALSE /\ store = last.pre
          ELSE /\ last.ret = TRUE
               /\ store = OtherRows(last.pre, last.filing_id)
               /\ Len(store) = Len(last.pre) - 1
               /\ get_filing_by_id(store, last.filing_id) = Absent

C5_Witness ==
    /\ last.op = "delete_filing"
    /\ last.ret = TRUE
    /\ Len(last.pre) = 2
    /\ Len(store) = 1

\* C6: no two stored filings ever share a filing_id; a create_filing whose
\* filing_id is already stored fails with the store's integrity error and adds
\* no row; get_filing_by_id never finds more than one match.
C6_UniqueFilingId ==
    /\ \A i, j \in 1..Len(store) : i # j => store[i].filing_id # store[j].filing_id
    /\ \A fid \in FilingIds : get_filing_by_id(store, fid) # MultipleResultsFound
    /\ (last.op = "create_filing" /\ IsRow(get_filing_by_id(last.pre, last.data.filing_id)))
         => (last.outcome = "IntegrityError" /\ store = last.pre)

C6_Witness ==
    /\ last.op = "create_filing"
    /\ last.outcome = "IntegrityError"
    /\ Len(store) = 2
    /\ store = last.pre

Max(a, b) == IF a > b THEN a ELSE b

\* C8: get_filings(skip, limit) returns the filings at positions skip+1 ..
\* skip+limit of the natural order: limit records when that many remain after
\* the first skip, all the remaining ones otherwise, in store order; the
\* store is not changed.
C8_Pagination ==
    last.op = "get_filings"
    => /\ store = last.pre
       /\ Len(last.ret) = Max(0, Min(last.limit, Len(store) - last.skip))
       /\ \A i \in 1..Len(last.ret) : last.ret[i] = store[last.skip + i]

C8_Witness ==
    /\ last.op = "get_filings"
    /\ last.skip = 1
    /\ last.limit = 3
    /\ Len(store) = 2
    /\ Len(last.ret) = 1
    /\ last.ret[1] = store[2]

----------------------------------------------------------------------------
(* Properties of the application (specification AppSpec) *)

\* C1: a readiness request never ends in an error: it is answered 200, with
\* status "ready" and database "connected", or with status "not ready",
\* database "disconnected" and a non-empty error text, also when session
\* acquisition fails because the database was never initialized.
C1_ReadinessAlways200 ==
    resp.op = "readiness"
    => /\ resp.status = 200
       /\ \/ resp.body = [status |-> "ready", database |-> "connected"]
          \/ /\ resp.body.status = "not ready"
             /\ resp.body.database = "disconnected"
             /\ resp.body.error # ""

\* C7: a session belongs to one request, and once its request has finished
\* (returned, failed or been cancelled) the session is closed: no session is
\* open without a running request that holds it, and no two running requests
\* hold the same session.
C7_SessionScopedToRequest ==
    /\ \A r \in Requests : req[r].pc = "done" => sess[req[r].sid] = "closed"
    /\ \A i \in 1..MaxSess : sess[i] = "open" => Cardinality(Holder(i)) = 1
    /\ \A r1, r2 \in Requests :
         (r1 # r2 /\ req[r1].pc = "handler" /\ req[r2].pc = "handler")
         => req[r1].sid # req[r2].sid

\* C9: without a connection string the startup event completes without
\* initializing the database, init_db fails with "DATABASE_URL must be set"
\* and assigns nothing, engine and session factory stay unset and every
\* session acquisition fails with "Database not initialized"; with a
\* connection string, engine and session factory are set whenever requests
\* are served.
C9_OptionalDatabase ==
    /\ ~Truthy(database_url) =>
         /\ phase \in {"created", "serving"}
         /\ engine = None
         /\ async_session_maker = None
         /\ \A i \in 1..MaxSess : sess[i] = "free"
         /\ resp.op = "init_db" =>
              (resp.status = "ValueError" /\ resp.error = DatabaseUrlMustBeSet)
         /\ resp.op = "readiness" =>
              (resp.status = 500 /\ resp.error = DatabaseNotInitialized)
    /\ Truthy(database_url) =>
         /\ phase \in {"created", "serving"}
         /\ (phase = "serving" \/ resp.op \in {"readiness", "list_filings", "get_filing"})
              => (engine # None /\ async_session_maker # None)

C9_Witness ==
    /\ database_url = ""
    /\ phase = "serving"
    /\ resp.op = "readiness"
    /\ resp.status = 500
    /\ engine = None

StubOps == {"list_filings", "get_filing"}

\* what the stub endpoints answer, written from the request alone
StubAnswer(op, request) ==
    IF op = "list_filings"
    THEN [filings |-> <<>>, consumer |-> request.consumer, user_id |-> request.user_id,
          message |-> "Filings endpoint - ready for implementation"]
    ELSE [filing_id |-> request.filing_id, consumer |-> request.consumer,
          user_id |-> request.user_id,
          message |-> "Filing detail endpoint - ready for implementation"]

\* C10: every list-filings or get-filing request is answered 200 with the
\* consumer and user_id of its two headers (None for an absent header) in a
\* body that is a function of the request alone, whatever the table holds and
\* whether or not the database is initialized; the step acquires no session
\* and changes neither the table nor the connection manager.
C10_StubEndpoints ==
    [][ (resp' # resp /\ resp'.op \in StubOps)
        => /\ resp'.status = 200
           /\ resp'.body = StubAnswer(resp'.op, resp'.request)
           /\ resp'.body.consumer = resp'.request.consumer
           /\ resp'.body.user_id = resp'.request.user_id
           /\ UNCHANGED <<store, nextId, sess, req, engine, async_session_maker>> ]_vars

C10_Witness ==
    /\ resp.op = "list_filings"
    /\ resp.request.consumer = None
    /\ resp.request.user_id = None
    /\ resp.body.consumer = None
    /\ resp.body.user_id = None
    /\ Len(store) = 2
    /\ engine = None

====
